---- MODULE Spec2Model ----
(***************************************************************************)
(* Model of windowing/time.py: SlidingTimeWindows and FixedTimeWindows.    *)
(*                                                                         *)
(* Time is counted in whole clock ticks; `now` is what time.time() reads.  *)
(* One action stands for one public method call, wrapper included.         *)
(***************************************************************************)
EXTENDS Integers, Sequences, FiniteSets, TLC

\* ------------------------------------------------------------------ bounds
MaxClock == 6       \* the clock stops advancing at MaxClock
MaxVal == 2         \* add() stores at most MaxVal values: 1, 2, ..
MaxStarts == 2      \* start() runs at most MaxStarts times

\* ----------------------------------------------------------- python values
\* Python's None, as the argument of add() and _add()
None == 0
\* marks __start_time / __start_period_time before start() has set them
NoTime == -1

\* the (window_duration, window_period) pairs SlidingTimeWindows is built with;
\* << 3, 2 >> and << 10, 3 >> are not divisible
SlidingConfigs == { << 4, 2 >>, << 6, 2 >>, << 3, 2 >>, << 10, 3 >> }
\* the window_duration values FixedTimeWindows is built with
FixedConfigs == { 2, 3 }

VARIABLES
    built,                  \* "ok", or the exception __init__ raised
    cls,                    \* the class that was instantiated
    window_duration,        \* self._window_duration
    window_period,          \* self._window_period
    force_start,            \* self._force_start
    no_of_retain_periods,   \* self._no_of_retain_periods
    window_periods,         \* self._window_periods (oldest first)
    period,                 \* self._period
    is_started,             \* self.is_started
    start_time,             \* self.__start_time
    start_period_time,      \* self.__start_period_time
    now,                    \* the reading of time.time()
    ret,                    \* what the last call returned or raised
    added,                  \* history: the non-None values add() stored, in call order
    period_no,              \* history: serial number of the period self._period stands for
    starts,                 \* history: how many times start() has run
    reads,                  \* history: queries in a row since the clock, add() or
                            \* start() last acted: 0, 1, or 2 for two and more
    threads,                \* per calling thread: where it stands in _add, its locals
    locking,                \* the callers guard every call with one lock per instance
    holder                  \* the thread that holds that lock, 0 for none

vars == << built, cls, window_duration, window_period, force_start,
           no_of_retain_periods, window_periods, period, is_started,
           start_time, start_period_time, now, ret, added, period_no, starts,
           reads, threads, locking, holder >>

config == << built, cls, window_duration, window_period, force_start,
             no_of_retain_periods >>

\* the callers' side: threads inside a call, and their lock
conc == << threads, locking, holder >>

\* the two threads that call add() at the same time
Threads == { 1, 2 }

\* a thread outside any call; the fields are the locals of _add and of
\* _add_new_window_period, and what the thread saw when it read the buffer
ThreadIdle ==
    [ pc |-> "idle", value |-> 0, current_time |-> 0, time_diff |-> 0,
      sread |-> 0, seen_ring |-> << >>, seen_period |-> << >>,
      new_ring |-> << >>, new_period |-> << >>, loaded |-> 0, stored |-> 0,
      after_assign |-> FALSE, after_store |-> FALSE,
      flag |-> FALSE, window |-> << >> ]

\* ----------------------------------------------------------- pure helpers
\* sum(periods, []) : concatenation, oldest period first
RECURSIVE Flatten(_)
Flatten(ps) ==
    IF ps = << >> THEN << >> ELSE Head(ps) \o Flatten(Tail(ps))

\* n * [[]]
RECURSIVE Repeat(_, _)
Repeat(n, x) ==
    IF n <= 0 THEN << >> ELSE << x >> \o Repeat(n - 1, x)

\* PushPop without the pop(0): the ring grows
PushNoPop(ps, p) == Append(ps, p)

\* tmp.append(p); tmp.pop(0)
PushPop(ps, p) == Tail(Append(ps, p))

\* PushBlanks that stops after the first blank period
PushOneBlank(ps, n) ==
    IF n <= 0 THEN ps ELSE PushPop(ps, << >>)

\* for _ in range(n): tmp.append(list()); tmp.pop(0)
RECURSIVE PushBlanks(_, _)
PushBlanks(ps, n) ==
    IF n <= 0 THEN ps ELSE PushBlanks(PushPop(ps, << >>), n - 1)

\* _add_new_window_period that rotates an empty period in, losing self._period
AddNewWindowPeriodLosing(ring, per, wp, time_diff, value) ==
    LET pushed == PushPop(ring, << >>)
        blanked == IF time_diff >= 2 * wp
                   THEN PushBlanks(pushed, (time_diff \div wp) - 1)
                   ELSE pushed
        tmp_period == IF value # None THEN << value >> ELSE << >>
    IN << blanked, tmp_period >>

\* _add_new_window_period that leaves self._period in place when no value comes
AddNewWindowPeriodKeeping(ring, per, wp, time_diff, value) ==
    LET pushed == PushPop(ring, per)
        blanked == IF time_diff >= 2 * wp
                   THEN PushBlanks(pushed, (time_diff \div wp) - 1)
                   ELSE pushed
        tmp_period == IF value # None THEN << value >> ELSE per
    IN << blanked, tmp_period >>

\* _add_new_window_period without the blank periods of the skipped time
AddNewWindowPeriodNoBlanks(ring, per, wp, time_diff, value) ==
    LET pushed == PushPop(ring, per)
        tmp_period == IF value # None THEN << value >> ELSE << >>
    IN << pushed, tmp_period >>

\* _add_new_window_period(time_diff, value) -> (tmp_window_periods, tmp_period)
AddNewWindowPeriod(ring, per, wp, time_diff, value) ==
    LET pushed == PushPop(ring, per)
        blanked == IF time_diff >= 2 * wp
                   THEN PushBlanks(pushed, (time_diff \div wp) - 1)
                   ELSE pushed
        tmp_period == IF value # None THEN << value >> ELSE << >>
    IN << blanked, tmp_period >>

\* _calculate_window_boundary(start_period_time), as the two timestamps it formats
CalculateWindowBoundary(spt, wp, n) == << spt - (wp * n), spt >>

\* _add whose flag is set on a rollover only
AddCoreFlagOnRollover(ring, per, spt, wp, n, t, value) ==
    LET time_diff == t - spt IN
    IF time_diff < wp
    THEN LET per2 == IF value # None THEN Append(per, value) ELSE per IN
         [ add_to_new_window |-> FALSE,
           window_periods |-> ring,
           period |-> per2,
           start_period_time |-> spt,
           passed |-> 0,
           current_window |-> Flatten(ring),
           boundary |-> CalculateWindowBoundary(spt, wp, n) ]
    ELSE LET r == AddNewWindowPeriod(ring, per, wp, time_diff, value)
             no_of_passed_periods == time_diff \div wp
             spt2 == spt + (wp * no_of_passed_periods)
         IN [ add_to_new_window |-> TRUE,
              window_periods |-> r[1],
              period |-> r[2],
              start_period_time |-> spt2,
              passed |-> no_of_passed_periods,
              current_window |-> Flatten(r[1]),
              boundary |-> CalculateWindowBoundary(spt2, wp, n) ]

\* _add whose flag is set for every value stored, first of its period or not
AddCoreFlagOnValue(ring, per, spt, wp, n, t, value) ==
    LET time_diff == t - spt IN
    IF time_diff < wp
    THEN LET per2 == IF value # None THEN Append(per, value) ELSE per IN
         [ add_to_new_window |-> (value # None),
           window_periods |-> ring,
           period |-> per2,
           start_period_time |-> spt,
           passed |-> 0,
           current_window |-> Flatten(ring),
           boundary |-> CalculateWindowBoundary(spt, wp, n) ]
    ELSE LET r == AddNewWindowPeriod(ring, per, wp, time_diff, value)
             no_of_passed_periods == time_diff \div wp
             spt2 == spt + (wp * no_of_passed_periods)
         IN [ add_to_new_window |-> TRUE,
              window_periods |-> r[1],
              period |-> r[2],
              start_period_time |-> spt2,
              passed |-> no_of_passed_periods,
              current_window |-> Flatten(r[1]),
              boundary |-> CalculateWindowBoundary(spt2, wp, n) ]

\* _add that also appends the value to the newest period of the ring
AddCoreIntoRing(ring, per, spt, wp, n, t, value) ==
    LET time_diff == t - spt IN
    IF time_diff < wp
    THEN LET per2 == IF value # None THEN Append(per, value) ELSE per IN
         [ add_to_new_window |-> (value # None /\ Len(per) = 0),
           window_periods |-> IF value # None /\ Len(ring) > 0
                             THEN [ ring EXCEPT ![Len(ring)] = Append(@, value) ]
                             ELSE ring,
           period |-> per2,
           start_period_time |-> spt,
           passed |-> 0,
           current_window |-> Flatten(ring),
           boundary |-> CalculateWindowBoundary(spt, wp, n) ]
    ELSE LET r == AddNewWindowPeriod(ring, per, wp, time_diff, value)
             no_of_passed_periods == time_diff \div wp
             spt2 == spt + (wp * no_of_passed_periods)
         IN [ add_to_new_window |-> TRUE,
              window_periods |-> r[1],
              period |-> r[2],
              start_period_time |-> spt2,
              passed |-> no_of_passed_periods,
              current_window |-> Flatten(r[1]),
              boundary |-> CalculateWindowBoundary(spt2, wp, n) ]

\* _add that inserts the value at the front of self._period
AddCorePrepend(ring, per, spt, wp, n, t, value) ==
    LET time_diff == t - spt IN
    IF time_diff < wp
    THEN LET per2 == IF value # None THEN << value >> \o per ELSE per IN
         [ add_to_new_window |-> (value # None /\ Len(per) = 0),
           window_periods |-> ring,
           period |-> per2,
           start_period_time |-> spt,
           passed |-> 0,
           current_window |-> Flatten(ring),
           boundary |-> CalculateWindowBoundary(spt, wp, n) ]
    ELSE LET r == AddNewWindowPeriod(ring, per, wp, time_diff, value)
             no_of_passed_periods == time_diff \div wp
             spt2 == spt + (wp * no_of_passed_periods)
         IN [ add_to_new_window |-> TRUE,
              window_periods |-> r[1],
              period |-> r[2],
              start_period_time |-> spt2,
              passed |-> no_of_passed_periods,
              current_window |-> Flatten(r[1]),
              boundary |-> CalculateWindowBoundary(spt2, wp, n) ]

\* _add that forgets to advance __start_period_time after a rollover
AddCoreNoAdvance(ring, per, spt, wp, n, t, value) ==
    LET time_diff == t - spt IN
    IF time_diff < wp
    THEN LET per2 == IF value # None THEN Append(per, value) ELSE per IN
         [ add_to_new_window |-> (value # None /\ Len(per) = 0),
           window_periods |-> ring,
           period |-> per2,
           start_period_time |-> spt,
           passed |-> 0,
           current_window |-> Flatten(ring),
           boundary |-> CalculateWindowBoundary(spt, wp, n) ]
    ELSE LET r == AddNewWindowPeriod(ring, per, wp, time_diff, value)
             no_of_passed_periods == time_diff \div wp
             spt2 == spt
         IN [ add_to_new_window |-> TRUE,
              window_periods |-> r[1],
              period |-> r[2],
              start_period_time |-> spt2,
              passed |-> no_of_passed_periods,
              current_window |-> Flatten(r[1]),
              boundary |-> CalculateWindowBoundary(spt2, wp, n) ]

\* _add whose returned window also holds the contents of self._period
AddCoreWindowWithPeriod(ring, per, spt, wp, n, t, value) ==
    LET time_diff == t - spt IN
    IF time_diff < wp
    THEN LET per2 == IF value # None THEN Append(per, value) ELSE per IN
         [ add_to_new_window |-> (value # None /\ Len(per) = 0),
           window_periods |-> ring,
           period |-> per2,
           start_period_time |-> spt,
           passed |-> 0,
           current_window |-> Flatten(ring) \o per2,
           boundary |-> CalculateWindowBoundary(spt, wp, n) ]
    ELSE LET r == AddNewWindowPeriod(ring, per, wp, time_diff, value)
             no_of_passed_periods == time_diff \div wp
             spt2 == spt + (wp * no_of_passed_periods)
         IN [ add_to_new_window |-> TRUE,
              window_periods |-> r[1],
              period |-> r[2],
              start_period_time |-> spt2,
              passed |-> no_of_passed_periods,
              current_window |-> Flatten(r[1]) \o r[2],
              boundary |-> CalculateWindowBoundary(spt2, wp, n) ]

\* _add that sets __start_period_time to the clock reading on a rollover
AddCoreSnapToNow(ring, per, spt, wp, n, t, value) ==
    LET time_diff == t - spt IN
    IF time_diff < wp
    THEN LET per2 == IF value # None THEN Append(per, value) ELSE per IN
         [ add_to_new_window |-> (value # None /\ Len(per) = 0),
           window_periods |-> ring,
           period |-> per2,
           start_period_time |-> spt,
           passed |-> 0,
           current_window |-> Flatten(ring),
           boundary |-> CalculateWindowBoundary(spt, wp, n) ]
    ELSE LET r == AddNewWindowPeriod(ring, per, wp, time_diff, value)
             no_of_passed_periods == time_diff \div wp
             spt2 == t
         IN [ add_to_new_window |-> TRUE,
              window_periods |-> r[1],
              period |-> r[2],
              start_period_time |-> spt2,
              passed |-> no_of_passed_periods,
              current_window |-> Flatten(r[1]),
              boundary |-> CalculateWindowBoundary(spt2, wp, n) ]

\* _add that still counts elapsed = window_period as the current period
AddCoreLateBoundary(ring, per, spt, wp, n, t, value) ==
    LET time_diff == t - spt IN
    IF time_diff <= wp
    THEN LET per2 == IF value # None THEN Append(per, value) ELSE per IN
         [ add_to_new_window |-> (value # None /\ Len(per) = 0),
           window_periods |-> ring,
           period |-> per2,
           start_period_time |-> spt,
           passed |-> 0,
           current_window |-> Flatten(ring),
           boundary |-> CalculateWindowBoundary(spt, wp, n) ]
    ELSE LET r == AddNewWindowPeriod(ring, per, wp, time_diff, value)
             no_of_passed_periods == time_diff \div wp
             spt2 == spt + (wp * no_of_passed_periods)
         IN [ add_to_new_window |-> TRUE,
              window_periods |-> r[1],
              period |-> r[2],
              start_period_time |-> spt2,
              passed |-> no_of_passed_periods,
              current_window |-> Flatten(r[1]),
              boundary |-> CalculateWindowBoundary(spt2, wp, n) ]

\* _add(value) run at clock reading t on the state (ring, per, spt):
\* the state it leaves and the tuple it returns
AddCore(ring, per, spt, wp, n, t, value) ==
    LET time_diff == t - spt IN
    IF time_diff < wp
    THEN LET per2 == IF value # None THEN Append(per, value) ELSE per IN
         [ add_to_new_window |-> (value # None /\ Len(per) = 0),
           window_periods |-> ring,
           period |-> per2,
           start_period_time |-> spt,
           passed |-> 0,
           current_window |-> Flatten(ring),
           boundary |-> CalculateWindowBoundary(spt, wp, n) ]
    ELSE LET r == AddNewWindowPeriod(ring, per, wp, time_diff, value)
             no_of_passed_periods == time_diff \div wp
             spt2 == spt + (wp * no_of_passed_periods)
         IN [ add_to_new_window |-> TRUE,
              window_periods |-> r[1],
              period |-> r[2],
              start_period_time |-> spt2,
              passed |-> no_of_passed_periods,
              current_window |-> Flatten(r[1]),
              boundary |-> CalculateWindowBoundary(spt2, wp, n) ]

\* the shape of `ret`; unused fields keep these defaults
NoRet == [ op |-> "none", err |-> "none", flag |-> FALSE,
           periods |-> << >>, window |-> << >>, boundary |-> << >>,
           status |-> << >> ]

\* ------------------------------------------------------------ construction
\* __init__ without the divisibility check: the quotient is truncated
ConstructUnchecked(c, d, p, ps, fs) ==
    /\ built = "ok"
    /\ cls = c
    /\ window_duration = d
    /\ window_period = p
    /\ force_start = fs
    /\ no_of_retain_periods = d \div p
    /\ window_periods = Repeat(d \div p, << >>)
    /\ period = << >>
    /\ is_started = ps
    /\ start_time = IF ps THEN 0 ELSE NoTime
    /\ start_period_time = IF ps THEN 0 ELSE NoTime
    /\ ret = [ NoRet EXCEPT !.op = "__init__" ]
    /\ starts = IF ps THEN 1 ELSE 0

\* SlidingTimeWindows.__init__(d, p, prompt_start, force_start) at clock 0
Construct(c, d, p, ps, fs) ==
    IF d % p # 0
    THEN /\ built = "ValueError"
         /\ cls = c
         /\ window_duration = d
         /\ window_period = p
         /\ force_start = fs
         /\ no_of_retain_periods = 0
         /\ window_periods = << >>
         /\ period = << >>
         /\ is_started = FALSE
         /\ start_time = NoTime
         /\ start_period_time = NoTime
         /\ ret = [ NoRet EXCEPT !.op = "__init__", !.err = "ValueError" ]
         /\ starts = 0
    ELSE /\ built = "ok"
         /\ cls = c
         /\ window_duration = d
         /\ window_period = p
         /\ force_start = fs
         /\ no_of_retain_periods = d \div p
         /\ window_periods = Repeat(d \div p, << >>)
         /\ period = << >>
         /\ is_started = ps
         /\ start_time = IF ps THEN 0 ELSE NoTime
         /\ start_period_time = IF ps THEN 0 ELSE NoTime
         /\ ret = [ NoRet EXCEPT !.op = "__init__" ]
         /\ starts = IF ps THEN 1 ELSE 0

\* FixedTimeWindows.__init__ passing a period of 1 instead of the duration
FixedTimeWindowsInitUnitPeriod(d) ==
    Construct("FixedTimeWindows", d, 1, TRUE, FALSE)

\* FixedTimeWindows.__init__(d): super().__init__(window_duration=d, window_period=d)
FixedTimeWindowsInit(d) ==
    Construct("FixedTimeWindows", d, d, TRUE, FALSE)

Init ==
    /\ now = 0
    /\ reads = 0
    /\ threads = [ i \in Threads |-> ThreadIdle ]
    /\ locking = FALSE
    /\ holder = 0
    /\ added = << >>
    /\ period_no = 0
    /\ \/ \E c \in SlidingConfigs, ps \in BOOLEAN, fs \in BOOLEAN :
             Construct("SlidingTimeWindows", c[1], c[2], ps, fs)
       \/ \E d \in FixedConfigs : FixedTimeWindowsInit(d)

\* ----------------------------------------------------------------- actions
\* the clock moves one tick forward; several ticks may pass between two calls
Tick ==
    /\ built = "ok"
    /\ now < MaxClock
    /\ now' = now + 1
    /\ reads' = 0
    /\ UNCHANGED << config, conc, window_periods, period, is_started, start_time,
                    start_period_time, ret, added, period_no, starts >>

\* start()
Start ==
    /\ built = "ok"
    /\ starts < MaxStarts
    /\ is_started' = TRUE
    /\ start_time' = now
    /\ start_period_time' = now
    /\ starts' = starts + 1
    /\ ret' = [ NoRet EXCEPT !.op = "start" ]
    /\ reads' = 0
    /\ UNCHANGED << config, conc, window_periods, period, now, added, period_no >>

\* _check_start that starts the buffer whether or not force_start is set
MayRunAlways == TRUE

\* _check_start: the wrapped method runs, after an implicit start() if forced
MayRun == is_started \/ force_start

\* _check_start's else branch: RuntimeError, nothing touched
RaiseNotStarted(op, value) ==
    /\ ~MayRun
    /\ ret' = [ NoRet EXCEPT !.op = op,
                             !.err = "RuntimeError" ]
    /\ reads' = 0
    /\ UNCHANGED << config, conc, window_periods, period, is_started, start_time,
                    start_period_time, now, added, period_no, starts >>

\* the body of a @_check_start method that calls self._add(value)
RunAdd(op, value) ==
    /\ MayRun
    /\ LET spt == IF is_started THEN start_period_time ELSE now
           r == AddCore(window_periods, period, spt, window_period,
                        no_of_retain_periods, now, value)
       IN /\ is_started' = TRUE
          /\ start_time' = IF is_started THEN start_time ELSE now
          /\ starts' = IF is_started THEN starts ELSE starts + 1
          /\ window_periods' = r.window_periods
          /\ period' = r.period
          /\ start_period_time' = r.start_period_time
          /\ period_no' = period_no + r.passed
          /\ added' = IF value # None
                      THEN Append(added, [ v |-> value, t |-> now,
                                           pno |-> period_no + r.passed ])
                      ELSE added
          /\ ret' = [ NoRet EXCEPT
                        !.op = op,
                        !.flag = IF op = "add" THEN r.add_to_new_window ELSE FALSE,
                        !.periods = IF op = "get_current_periods"
                                    THEN r.window_periods ELSE << >>,
                        !.window = IF op = "get_current_periods"
                                   THEN << >>
                                   ELSE IF op = "add" THEN r.current_window
                                   ELSE Flatten(r.window_periods),
                        !.boundary = IF op = "get_current_window"
                                     THEN << >> ELSE r.boundary ]
    /\ reads' = IF op = "add" THEN 0
                 ELSE IF reads = 0 THEN 1 ELSE 2
    /\ UNCHANGED << config, conc, now >>

\* The code never looks into a value except to compare it with None, so the
\* values offered are told apart by the order of their arrival: the k-th
\* value stored is k.
FreshValues == IF Len(added) < MaxVal THEN { Len(added) + 1 } ELSE { }

\* add(value)
Add ==
    /\ built = "ok"
    /\ \E value \in FreshValues \cup { None } :
          \/ RunAdd("add", value)
          \/ RaiseNotStarted("add", value)

\* get_current_periods()
GetCurrentPeriods ==
    /\ built = "ok"
    /\ \/ RunAdd("get_current_periods", None)
       \/ RaiseNotStarted("get_current_periods", None)

\* get_current_window()
GetCurrentWindow ==
    /\ built = "ok"
    /\ \/ RunAdd("get_current_window", None)
       \/ RaiseNotStarted("get_current_window", None)

\* get_status(): not wrapped by _check_start
GetStatus ==
    /\ built = "ok"
    /\ ret' = IF start_time = NoTime
              THEN [ NoRet EXCEPT !.op = "get_status",
                                  !.err = "AttributeError" ]
              ELSE [ NoRet EXCEPT !.op = "get_status",
                                  !.status = << start_time, start_period_time >> ]
    /\ reads' = 0
    /\ UNCHANGED << config, conc, window_periods, period, is_started, start_time,
                    start_period_time, now, added, period_no, starts >>

Next ==
    \/ Tick
    \/ Start
    \/ Add
    \/ GetCurrentPeriods
    \/ GetCurrentWindow
    \/ GetStatus

Spec == Init /\ [][Next]_vars

\* ------------------------------------------------- vocabulary of the claims
\* elapsed = now - periodStartTime, as the next call will compute it
\* (a forced start sets periodStartTime = now first)
Elapsed == IF is_started THEN now - start_period_time ELSE 0

\* this step is a call of `op` that ran to its return
Ran(op) == now' = now /\ ret'.op = op /\ ret'.err = "none"
AddCall == Ran("add")
QueryCall == Ran("get_current_periods") \/ Ran("get_current_window")

\* the argument of the add() call this step makes
Arg == IF Len(added') > Len(added) THEN added'[Len(added')].v ELSE None

\* the periods, and the window, the call of this step returned
RetPeriods == ret'.periods
RetWindow == IF ret'.op = "get_current_periods" THEN Flatten(ret'.periods)
             ELSE ret'.window

Range(s) == { s[i] : i \in 1..Len(s) }

\* the last n entries of s
LastN(s, n) == SubSeq(s, Len(s) - n + 1, Len(s))

\* ------------------------------------------------------------------ claims
\* C1: capacity invariant. The buffer was built only if window_duration is
\* a whole multiple N of window_period, and at all times, whatever start(),
\* add(), get_current_periods(), get_current_window() calls and clock
\* advances came before, the ring holds exactly N periods; so does every
\* list of periods a call returns.
C1_Capacity ==
    built = "ok" =>
        /\ no_of_retain_periods * window_period = window_duration
        /\ Len(window_periods) = no_of_retain_periods
        /\ (ret.op = "get_current_periods" /\ ret.err = "none"
              => Len(ret.periods) = no_of_retain_periods)

\* a ring of three periods after a restart, stored values and skipped periods
C1_Witness ==
    /\ built = "ok"
    /\ no_of_retain_periods = 3
    /\ starts = 2
    /\ period_no >= 2
    /\ Len(added) = 2
    /\ ret.op = "add"
    /\ Len(window_periods) = 3

\* C2: single rollover. When add(v) runs with
\* periodSize <= elapsed < 2 * periodSize, the new ring is the old ring
\* without its oldest period and with the old activePeriod appended, the new
\* activePeriod is [v] (empty when v is None, Python's "no value"), the call
\* returns isNewWindow = true, and the returned window holds none of the
\* dropped period's values.
C2_SingleRollover ==
    [][ (AddCall /\ window_period <= Elapsed /\ Elapsed < 2 * window_period)
        => /\ window_periods' = Tail(window_periods) \o << period >>
           /\ period' = (IF Arg # None THEN << Arg >> ELSE << >>)
           /\ ret'.flag = TRUE
           /\ ret'.window = Flatten(window_periods')
           /\ Range(Head(window_periods)) \cap Range(ret'.window) = { }
      ]_vars

\* add(2) has just rolled the period [1] of a three-period ring over, one
\* period after it began
C2_Witness ==
    /\ ret.op = "add"
    /\ ret.flag
    /\ no_of_retain_periods = 3
    /\ window_periods = << << >>, << >>, << 1 >> >>
    /\ period = << 2 >>
    /\ period_no = 1
    /\ now - start_period_time = 1

\* C3: blank-period insertion. When add or a query runs with
\* elapsed >= 2 * periodSize, the ring is shifted by k = floor(elapsed /
\* periodSize) slots in all: the old activePeriod is pushed, then k - 1 empty
\* periods, each push dropping the oldest entry.
C3_BlankPeriods ==
    [][ ((AddCall \/ QueryCall) /\ Elapsed >= 2 * window_period)
        => LET k == Elapsed \div window_period
               blanks == [ i \in 1..(k - 1) |-> << >> ]
           IN window_periods' =
                 LastN(window_periods \o << period >> \o blanks,
                       no_of_retain_periods)
      ]_vars

\* duration 6, period 2: values stored at clock 0, the clock advanced by 5,
\* then get_current_window(): the ring is shifted by 2, with one blank period
C3_Witness ==
    /\ ret.op = "get_current_window"
    /\ window_duration = 6
    /\ window_period = 2
    /\ start_time = 0
    /\ now = 5
    /\ start_period_time = 4
    /\ window_periods = << << >>, << 1, 2 >>, << >> >>
    /\ ret.window = << 1, 2 >>

\* where, and in which period, add() stored the value x
Pos(x) == CHOOSE i \in 1..Len(added) : added[i].v = x
PNo(x) == added[Pos(x)].pno

\* the values of s stand in the order add() stored them, older periods first
InArrivalOrder(s) ==
    \A i, j \in 1..Len(s) :
        i < j => Pos(s[i]) < Pos(s[j]) /\ PNo(s[i]) <= PNo(s[j])

\* the window the last call returned
LastWindow == IF ret.op = "get_current_periods" THEN Flatten(ret.periods)
              ELSE ret.window

\* C4 as stated: the flag add(v) returns is true if and only if a rollover
\* occurred on that call; it is false whenever elapsed < periodSize.
C4_Original ==
    [][ AddCall => (ret'.flag <=> Elapsed >= window_period) ]_vars

\* C4, amended: the flag add(v) returns is true if and only if a rollover
\* occurred on that call (elapsed >= periodSize) or v is a value (not None)
\* stored into an empty activePeriod; it is false when elapsed < periodSize
\* and activePeriod already holds a value or v is None.
C4_NewWindowFlag ==
    [][ AddCall =>
          (ret'.flag <=> \/ Elapsed >= window_period
                         \/ (Arg # None /\ period = << >>))
      ]_vars

\* two add calls in the first period of a fresh buffer: the second one
\* returned false
C4_Witness ==
    /\ ret.op = "add"
    /\ ~ret.flag
    /\ period = << 1, 2 >>
    /\ period_no = 0
    /\ starts = 1
    /\ start_time = 0

\* C5 as stated: the values added within the current, not-yet-closed period
\* are returned by get_current_window() queried in that same period.
C5_Original ==
    (ret.op = "get_current_window" /\ ret.err = "none")
        => Range(period) \subseteq Range(ret.window)

\* C5, amended: the values added within the current, not-yet-closed period
\* are not returned by get_current_window() queried in that same period
\* (they stay in activePeriod); get_current_window() queried in the period
\* after (periodSize <= elapsed < 2 * periodSize) returns them, as the
\* newest part of the window.
C5_Accumulation ==
    [][ Ran("get_current_window") =>
          /\ Elapsed < window_period
               => /\ period' = period
                  /\ ret'.window = Flatten(window_periods)
                  /\ Range(period) \cap Range(ret'.window) = { }
          /\ (window_period <= Elapsed /\ Elapsed < 2 * window_period)
               => /\ period' = << >>
                  /\ ret'.window = Flatten(Tail(window_periods)) \o period
      ]_vars

\* duration = period: after add(1) and add(2), get_current_window() queried
\* in the same period returned the empty window
C5_Witness ==
    /\ cls = "FixedTimeWindows"
    /\ ret.op = "get_current_window"
    /\ ret.window = << >>
    /\ period = << 1, 2 >>
    /\ period_no = 0

\* C6: for every add(v) with v not None, the flag returned is true exactly
\* when v is the first value of its period, that is when activePeriod is [v]
\* after the call: a rollover happened on this call, or none did and
\* activePeriod was empty; it is false when v is appended to a non-empty
\* activePeriod.
C6_FirstOfPeriod ==
    [][ (AddCall /\ Arg # None) =>
          /\ ret'.flag <=> (period' = << Arg >>)
          /\ ~ret'.flag <=> (period # << >> /\ period' = Append(period, Arg))
      ]_vars

\* add(2) opened a new period by a rollover and returned true
C6_Witness ==
    /\ ret.op = "add"
    /\ ret.flag
    /\ period = << 2 >>
    /\ Len(added) = 2
    /\ added[1].pno < added[2].pno

\* C7: order preservation. In the ring followed by activePeriod, and in
\* every window a call returns, the values stand in the order they were
\* added, the values of an older period before those of a newer one; the
\* values of one ring slot come from one period.
C7_Order ==
    built = "ok" =>
        /\ InArrivalOrder(Flatten(window_periods) \o period)
        /\ \A k \in 1..Len(window_periods) :
              \A x, y \in Range(window_periods[k]) : PNo(x) = PNo(y)
        /\ ret.err = "none" => InArrivalOrder(LastWindow)

\* a returned window with two values of one period, in the order added
C7_Witness ==
    /\ ret.op = "get_current_window"
    /\ ret.window = << 1, 2 >>
    /\ added[1].pno = added[2].pno
    /\ added[1].t < added[2].t

\* C8: fixed-window non-overlap. FixedTimeWindows(d) has period = duration
\* and a ring of one period; a rollover replaces that period by the old
\* activePeriod (by a blank one if a whole period was skipped), so the window
\* returned holds none of the previous window's values, and no returned
\* window holds values of two different periods.
C8_FixedNonOverlap ==
    [][ (cls = "FixedTimeWindows" /\ (AddCall \/ QueryCall)) =>
          /\ window_period = window_duration
          /\ Len(window_periods') = 1
          /\ Elapsed >= window_period =>
                /\ window_periods' =
                      << IF Elapsed < 2 * window_period THEN period ELSE << >> >>
                /\ Range(Flatten(window_periods)) \cap Range(RetWindow) = { }
          /\ \A x, y \in Range(RetWindow) : PNo(x) = PNo(y)
      ]_vars

\* a fixed window: the value 1 of the first period rolled in, was replaced
\* by the value 2 of the next period, and the window returned is [2]
C8_Witness ==
    /\ cls = "FixedTimeWindows"
    /\ ret.op = "get_current_window"
    /\ ret.window = << 2 >>
    /\ Len(added) = 2
    /\ added[1].pno = 0
    /\ added[2].pno = 1

\* C9: idempotent read. A query that follows a query, with no add, no
\* start and no clock advance between them, leaves the ring, activePeriod
\* and periodStartTime unchanged and returns what the first one returned.
C9_IdempotentRead ==
    [][ (QueryCall /\ reads >= 1) =>
          /\ UNCHANGED << window_periods, period, start_period_time >>
          /\ RetWindow = LastWindow
          /\ (ret.op = ret'.op => ret'.periods = ret.periods
                                  /\ ret'.window = ret.window
                                  /\ ret'.boundary = ret.boundary)
          /\ (ret'.op = "get_current_periods" => ret'.periods = window_periods)
      ]_vars

\* a second query in a row, after the first one crossed two period
\* boundaries and rotated a stored value into the ring
C9_Witness ==
    /\ reads = 2
    /\ ret.op = "get_current_periods"
    /\ Flatten(ret.periods) = << 1 >>
    /\ period_no >= 2
    /\ period = << >>

\* C10 as stated, for a started buffer: a query leaves the ring,
\* activePeriod and periodStartTime unchanged, whatever the elapsed time.
C10_Original ==
    [][ (QueryCall /\ is_started) =>
          UNCHANGED << window_periods, period, start_period_time >>
      ]_vars

\* C10, amended: on a started buffer a query leaves the ring, activePeriod
\* and periodStartTime unchanged when elapsed < periodSize; when
\* elapsed >= periodSize it commits the rollover: with k = floor(elapsed /
\* periodSize), activePeriod and k - 1 blank periods are pushed into the
\* ring, activePeriod becomes empty and periodStartTime advances by
\* k * periodSize.
C10_QueryEffect ==
    [][ (QueryCall /\ is_started) =>
          IF Elapsed < window_period
          THEN UNCHANGED << window_periods, period, start_period_time >>
          ELSE LET k == Elapsed \div window_period IN
               /\ period' = << >>
               /\ start_period_time' = start_period_time + k * window_period
               /\ window_periods' =
                     LastN(window_periods \o << period >>
                              \o [ i \in 1..(k - 1) |-> << >> ],
                           no_of_retain_periods)
      ]_vars

\* a query one period late has moved the stored value into the ring and
\* advanced periodStartTime
C10_Witness ==
    /\ ret.op = "get_current_periods"
    /\ reads = 1
    /\ no_of_retain_periods = 2
    /\ window_periods = << << >>, << 1 >> >>
    /\ period = << >>
    /\ start_period_time = start_time + window_period
    /\ starts = 1

\* C11: construction validation. Construction fails with a ValueError, and
\* yields no buffer, exactly when window_duration is not a whole multiple of
\* window_period; otherwise it yields a ring of N = duration / period empty
\* periods and an empty activePeriod, started only with prompt_start, and
\* then with windowStartTime = periodStartTime = the clock at construction.
C11_Construction ==
    ret.op = "__init__" =>
        /\ ret.err = (IF window_duration % window_period = 0
                      THEN "none" ELSE "ValueError")
        /\ built = (IF ret.err = "none" THEN "ok" ELSE "ValueError")
        /\ built = "ValueError" =>
              window_periods = << >> /\ ~is_started /\ ~ENABLED Next
        /\ built = "ok" =>
              /\ Len(window_periods) * window_period = window_duration
              /\ \A k \in 1..Len(window_periods) : window_periods[k] = << >>
              /\ period = << >>
              /\ starts = (IF is_started THEN 1 ELSE 0)
              /\ is_started => start_time = 0 /\ start_period_time = 0
              /\ ~is_started => start_time = NoTime /\ start_period_time = NoTime
              /\ now = 0 => ENABLED Next

\* a buffer just built with prompt_start: three empty periods, started at
\* the construction clock
C11_Witness ==
    /\ ret.op = "__init__"
    /\ built = "ok"
    /\ cls = "SlidingTimeWindows"
    /\ window_duration = 6
    /\ window_period = 2
    /\ window_periods = << << >>, << >>, << >> >>
    /\ period = << >>
    /\ is_started
    /\ start_time = now
    /\ start_period_time = now

\* this step is a call of `op`, returning or raising
Called(op) == now' = now /\ ret'.op = op
GuardedCall ==
    Called("add") \/ Called("get_current_periods") \/ Called("get_current_window")

\* C12: start guard. Before start(), on a buffer without force_start, add,
\* get_current_periods and get_current_window raise the not-started error
\* and leave is_started, the ring, activePeriod and both timestamps
\* unchanged; with force_start the call starts the buffer
\* (windowStartTime = periodStartTime = now) and then runs as on a buffer
\* started at this instant; a started buffer stays started.
C12_StartGuard ==
    [][ /\ is_started => is_started'
        /\ (GuardedCall /\ ~is_started /\ ~force_start) =>
              /\ ret'.err = "RuntimeError"
              /\ UNCHANGED << is_started, window_periods, period, start_time,
                              start_period_time, added, starts >>
        /\ (GuardedCall /\ ~is_started /\ force_start) =>
              /\ ret'.err = "none"
              /\ is_started'
              /\ starts' = starts + 1
              /\ start_time' = now
              /\ start_period_time' = now
              /\ window_periods' = window_periods
              /\ period' = (IF Arg # None THEN Append(period, Arg) ELSE period)
        /\ (GuardedCall /\ is_started) => ret'.err = "none"
      ]_vars

\* add was refused on a buffer that was never started
C12_Witness ==
    /\ ret.op = "add"
    /\ ret.err = "RuntimeError"
    /\ ~is_started
    /\ ~force_start
    /\ starts = 0
    /\ now > 0

\* C13 as stated: with force_start and without prompt_start, get_status()
\* called before any start starts the buffer and returns the start_time and
\* start_period_time that start set.
C13_StatusStarts ==
    [][ (Called("get_status") /\ force_start /\ ~is_started) =>
          /\ is_started'
          /\ ret'.err = "none"
          /\ ret'.status = << now, now >>
      ]_vars

\* C14: the window add(v) and get_current_window() return is the
\* oldest-to-newest concatenation of the ring as the call leaves it; it
\* holds nothing of activePeriod, and so not the value v of that same add.
C14_WindowIsRing ==
    [][ (AddCall \/ Ran("get_current_window")) =>
          /\ ret'.window = Flatten(window_periods')
          /\ Range(period') \cap Range(ret'.window) = { }
          /\ Arg # None => /\ Arg \in Range(period')
                           /\ Arg \notin Range(ret'.window)
      ]_vars

\* add(2) rolled the value 1 into the ring: the window returned is [1], the
\* value 2 waits in activePeriod
C14_Witness ==
    /\ ret.op = "add"
    /\ ret.window = << 1 >>
    /\ period = << 2 >>
    /\ Flatten(window_periods) = << 1 >>

\* C15: phase alignment. After every add or query made at clock time t,
\* periodStartTime - windowStartTime is a non-negative multiple of
\* periodSize and 0 <= t - periodStartTime < periodSize; the call moves
\* periodStartTime by floor(elapsed / periodSize) * periodSize and never
\* changes the windowStartTime of a started buffer. (start() sets both
\* timestamps to the clock, so this holds after a repeated start() too.)
C15_PhaseAlignment ==
    [][ (AddCall \/ QueryCall) =>
          /\ start_period_time' >= start_time'
          /\ (start_period_time' - start_time') % window_period = 0
          /\ 0 <= now - start_period_time'
          /\ now - start_period_time' < window_period
          /\ is_started =>
                /\ start_time' = start_time
                /\ start_period_time' = start_period_time
                      + (Elapsed \div window_period) * window_period
      ]_vars

\* started once at clock 0, period 2: an add at clock 5 left periodStartTime
\* at 4, not at 5
C15_Witness ==
    /\ ret.op = "add"
    /\ starts = 1
    /\ start_time = 0
    /\ window_period = 2
    /\ now = 5
    /\ start_period_time = 4
    /\ period = << 1 >>

\* add(v) run now on the buffer state (ring, per, spt), and what of it C16
\* compares: the state left and the pair returned
AddAt(ring, per, spt, v) ==
    AddCore(ring, per, spt, window_period, no_of_retain_periods, now, v)
Outcome(r) ==
    << r.window_periods, r.period, r.start_period_time,
       r.add_to_new_window, r.current_window >>

\* C16: eager-query equivalence. Whatever a query changed, add(v) with v not
\* None made right after it at the same clock reading leaves the ring,
\* activePeriod and periodStartTime, and returns the flag and window, that
\* add(v) would have without the query.
C16_QueryThenAdd ==
    [][ QueryCall =>
          LET v == Len(added) + 1
              spt0 == IF is_started THEN start_period_time ELSE now
          IN Outcome(AddAt(window_periods', period', start_period_time', v))
                = Outcome(AddAt(window_periods, period, spt0, v))
      ]_vars

\* a query two periods late rolled the value 1 into the ring and emptied
\* activePeriod; add(2) comes next at the same clock reading
C16_Witness ==
    /\ ret.op = "get_current_window"
    /\ reads = 1
    /\ period_no = 2
    /\ period = << >>
    /\ Flatten(window_periods) = << 1 >>
    /\ Len(added) = 1
    /\ now - start_period_time = 1

\* the values add() stored at a clock time in [lo, hi), in call order
ValuesAddedIn(lo, hi) ==
    LET sel == SelectSeq(added, LAMBDA e : lo <= e.t /\ e.t < hi)
    IN [ i \in 1..Len(sel) |-> sel[i].v ]

WindowLo == start_period_time - no_of_retain_periods * window_period

\* C17: window content matches the window boundary. With start() run once,
\* the window a call returns is the sequence of the values added at a clock
\* time in [periodStartTime - N * periodSize, periodStartTime), each once
\* and no other, and the boundary returned is that interval.
C17_WindowContent ==
    (starts = 1 /\ ret.err = "none"
       /\ ret.op \in { "add", "get_current_periods", "get_current_window" })
    => /\ LastWindow = ValuesAddedIn(WindowLo, start_period_time)
       /\ ret.op # "get_current_window"
             => ret.boundary = << WindowLo, start_period_time >>

\* duration 4, period 2, started at 0: values added at 1 and at 2; the query
\* at 4 or 5 returns both, the window boundary being [0, 4)
C17_Witness ==
    /\ starts = 1
    /\ ret.op = "get_current_window"
    /\ window_duration = 4
    /\ start_period_time = 4
    /\ Len(added) = 2
    /\ added[1].t = 1
    /\ added[2].t = 2
    /\ ret.window = << 1, 2 >>

\* the start of the period of clock time t, counted from windowStartTime
PeriodStart(t) ==
    start_time + ((t - start_time) \div window_period) * window_period

Expiry == (no_of_retain_periods + 1) * window_period

\* C18 as stated (its second sentence): when the clock has advanced by at
\* least (N + 1) * periodSize since the last add, get_current_window()
\* returns the empty sequence.
C18_Original ==
    [][ (Ran("get_current_window") /\ added # << >>
           /\ now - added[Len(added)].t >= Expiry)
        => ret'.window = << >>
      ]_vars

\* C18, amended: with start() run once, a value added during a period that
\* starts at time s is absent from every window returned by a call made at
\* clock time >= s + (N + 1) * periodSize, and when the clock has advanced
\* by at least (N + 1) * periodSize since the last add,
\* get_current_window() returns the empty sequence.
C18_Expiry ==
    [][ ((AddCall \/ QueryCall) /\ starts' = 1) =>
          /\ \A i \in 1..Len(added) :
                now >= PeriodStart(added[i].t)' + Expiry
                    => added[i].v \notin Range(RetWindow)
          /\ (Ran("get_current_window") /\ added # << >>
                 /\ now - added[Len(added)].t >= Expiry)
                => ret'.window = << >>
      ]_vars

\* duration 4, period 2, started once: the value added at clock 1 is gone
\* from the window returned at clock 6
C18_Witness ==
    /\ starts = 1
    /\ ret.op = "get_current_window"
    /\ window_duration = 4
    /\ start_time = 0
    /\ now = 6
    /\ start_period_time = 6
    /\ Len(added) = 1
    /\ added[1].t = 1
    /\ ret.window = << >>

\* ---------------------------------------------------------------------
\* Two threads inside add() at once.  _add is several statements, and the
\* interpreter may switch threads between any two of them: the read of
\* the clock and of __start_period_time, the copies taken by
\* _add_new_window_period, the assignment of the rotated ring, and the
\* load and the store of the += on __start_period_time.

\* the value thread i adds, apart from the values of the single-threaded
\* prefix
ThreadValue(i) == MaxVal + i

\* thread j ran the rollover branch
Rolled(j) == threads[j].time_diff >= window_period

\* whole periods thread j computed as passed
Passed(j) == threads[j].time_diff \div window_period

\* another thread has already assigned its rotated ring
OtherAssigned(i) ==
    \E j \in Threads \ { i } :
        Rolled(j) /\ threads[j].pc \in { "assigned", "loaded", "ret", "done" }

\* another thread has already stored its advanced __start_period_time
OtherStored(i) ==
    \E j \in Threads \ { i } :
        Rolled(j) /\ threads[j].pc \in { "ret", "done" }

\* a caller that locks takes the instance's lock before the call
Acquire(i) ==
    /\ locking => holder = 0
    /\ holder' = IF locking THEN i ELSE holder

\* and gives it back after the call
Release(i) == holder' = IF locking THEN 0 ELSE holder

\* the part of the buffer a thread step leaves alone
ThreadFrame ==
    UNCHANGED << config, locking, is_started, start_time, now, ret, added,
                 period_no, starts, reads >>

\* a started buffer, used by one thread, before the two threads call
PrefixAdd ==
    /\ built = "ok"
    /\ \A i \in Threads : threads[i].pc = "idle"
    /\ \E value \in FreshValues : RunAdd("add", value)

\* add(value) -> _add: read the clock and __start_period_time
T_Call(i) ==
    /\ built = "ok"
    /\ is_started
    /\ threads[i].pc = "idle"
    /\ Acquire(i)
    /\ threads' = [ threads EXCEPT ![i] =
                      [ @ EXCEPT !.pc = "read",
                                 !.value = ThreadValue(i),
                                 !.current_time = now,
                                 !.sread = start_period_time,
                                 !.time_diff = now - start_period_time ] ]
    /\ UNCHANGED << window_periods, period, start_period_time >>
    /\ ThreadFrame

\* time_diff < window_period: append to the active period
T_Append(i) ==
    /\ threads[i].pc = "read"
    /\ ~Rolled(i)
    /\ period' = Append(period, threads[i].value)
    /\ threads' = [ threads EXCEPT ![i] =
                      [ @ EXCEPT !.pc = "ret",
                                 !.flag = (Len(period) = 0) ] ]
    /\ UNCHANGED << window_periods, start_period_time, holder >>
    /\ ThreadFrame

\* _add_new_window_period: deep copies of the ring and of the active
\* period, rotated in the thread's own memory
T_Copy(i) ==
    /\ threads[i].pc = "read"
    /\ Rolled(i)
    /\ LET r == AddNewWindowPeriod(window_periods, period, window_period,
                                   threads[i].time_diff, threads[i].value)
       IN threads' = [ threads EXCEPT ![i] =
                         [ @ EXCEPT !.pc = "copied",
                                    !.seen_ring = window_periods,
                                    !.seen_period = period,
                                    !.new_ring = r[1],
                                    !.new_period = r[2],
                                    !.after_assign = OtherAssigned(i),
                                    !.flag = TRUE ] ]
    /\ UNCHANGED << window_periods, period, start_period_time, holder >>
    /\ ThreadFrame

\* self._window_periods, self._period = the rotated copies
T_Assign(i) ==
    /\ threads[i].pc = "copied"
    /\ window_periods' = threads[i].new_ring
    /\ period' = threads[i].new_period
    /\ threads' = [ threads EXCEPT ![i] = [ @ EXCEPT !.pc = "assigned" ] ]
    /\ UNCHANGED << start_period_time, holder >>
    /\ ThreadFrame

\* the += on __start_period_time, first half: load the attribute
T_Load(i) ==
    /\ threads[i].pc = "assigned"
    /\ threads' = [ threads EXCEPT ![i] =
                      [ @ EXCEPT !.pc = "loaded",
                                 !.loaded = start_period_time,
                                 !.after_store = OtherStored(i) ] ]
    /\ UNCHANGED << window_periods, period, start_period_time, holder >>
    /\ ThreadFrame

\* as T_Store, but from the value read at the head of _add
T_StoreFromRead(i) ==
    /\ threads[i].pc = "loaded"
    /\ LET s == threads[i].sread + window_period * Passed(i)
       IN /\ start_period_time' = s
          /\ threads' = [ threads EXCEPT ![i] =
                            [ @ EXCEPT !.pc = "ret", !.stored = s ] ]
    /\ UNCHANGED << window_periods, period, holder >>
    /\ ThreadFrame

\* the += on __start_period_time, second half: add and store
T_Store(i) ==
    /\ threads[i].pc = "loaded"
    /\ LET s == threads[i].loaded + window_period * Passed(i)
       IN /\ start_period_time' = s
          /\ threads' = [ threads EXCEPT ![i] =
                            [ @ EXCEPT !.pc = "ret", !.stored = s ] ]
    /\ UNCHANGED << window_periods, period, holder >>
    /\ ThreadFrame

\* flatten the ring, compute the boundary, return
T_Return(i) ==
    /\ threads[i].pc = "ret"
    /\ Release(i)
    /\ threads' = [ threads EXCEPT ![i] =
                      [ @ EXCEPT !.pc = "done",
                                 !.window = Flatten(window_periods) ] ]
    /\ UNCHANGED << window_periods, period, start_period_time >>
    /\ ThreadFrame

\* a started buffer; the callers either all lock or none does
InitThreads ==
    /\ now = 0
    /\ reads = 0
    /\ threads = [ i \in Threads |-> ThreadIdle ]
    /\ locking \in BOOLEAN
    /\ holder = 0
    /\ added = << >>
    /\ period_no = 0
    /\ \/ \E c \in SlidingConfigs :
             Construct("SlidingTimeWindows", c[1], c[2], TRUE, FALSE)
       \/ \E d \in FixedConfigs : FixedTimeWindowsInit(d)

NextThreads ==
    \/ Tick
    \/ PrefixAdd
    \/ \E i \in Threads : T_Call(i)
    \/ \E i \in Threads : T_Append(i)
    \/ \E i \in Threads : T_Copy(i)
    \/ \E i \in Threads : T_Assign(i)
    \/ \E i \in Threads : T_Load(i)
    \/ \E i \in Threads : T_Store(i)
    \/ \E i \in Threads : T_Return(i)

SpecThreads == InitThreads /\ [][NextThreads]_vars

\* ----- C19 -----------------------------------------------------------

\* both calls have returned
BothDone == \A i \in Threads : threads[i].pc = "done"

\* two unlocked calls that both read elapsed >= periodSize from the same
\* periodStartTime; periodStartTime only grows by whole periods, so the
\* same reading means both read before either wrote it back
Raced ==
    /\ ~locking
    /\ BothDone
    /\ \A i \in Threads : Rolled(i)
    /\ threads[1].sread = threads[2].sread

\* the ring after the rotation of call i followed by the rotation of
\* call j: Passed(i) + Passed(j) slots pushed onto what call i copied
DoubleShift(i, j) ==
    LastN(threads[i].seen_ring \o << threads[i].seen_period >>
              \o Repeat(Passed(i) - 1, << >>)
              \o << << threads[i].value >> >>
              \o Repeat(Passed(j) - 1, << >>),
          no_of_retain_periods)

\* the ring after the rotation of call j alone
SingleShift(j) ==
    LastN(threads[j].seen_ring \o << threads[j].seen_period >>
              \o Repeat(Passed(j) - 1, << >>),
          no_of_retain_periods)

\* periodStartTime advanced by both calls
DoubleAdvance ==
    start_period_time
        = threads[1].sread + (Passed(1) + Passed(2)) * window_period

\* periodStartTime is later than the clock time either call read
AheadOfClock ==
    \A i \in Threads : start_period_time > threads[i].current_time

====
